---- MODULE Spec2Model ----
(***************************************************************************)
(* Model of internal/build/imgsrc/dockerfile_builder.go:                   *)
(*   dockerfileBuilder.Run, runClassicBuild, runBuildKitBuild, pushToFly.  *)
(* One run of Run is modelled as a sequence of steps (pc); every answer of *)
(* the environment (file system, daemon, registry) is drawn where the code *)
(* asks for it.  The caller's context can be cancelled at any moment.      *)
(***************************************************************************)
EXTENDS Integers, Sequences, FiniteSets, TLC

\* ------------------------------------------------------------------ bounds
MaxStatus == 2        \* status events the solve call may produce
MaxPushFails == 2     \* failing push attempts before a scripted success
MaxAttempts == MaxPushFails + 2   \* saturation point of the push counters
MaxAux == 2           \* aux messages in one classic status stream

\* --------------------------------------------------------------- constants
RetryDelay == 3       \* retry.Delay(3*time.Second)
RetryAttempts == 0    \* retry.Attempts(0): retry until success
ExitStatus == 1       \* os.Exit(1)

Tags == {"img:1", "img:2"}
Phases == {"Build", "BuilderInit", "ContextBuild", "ImageBuild", "Push"}
CallNames == {"connect", "probe", "context", "info", "classic", "session",
              "push", "inspect"}

VARIABLES
  pc,            \* position of Run
  ctxCancelled,  \* the caller's context is done
  available,     \* dockerFactory.mode.IsAvailable()
  explicitPath,  \* opts.DockerfilePath != ""
  publish,       \* opts.Publish
  isLocal,       \* dockerFactory.IsLocal()
  tag,           \* opts.Tag
  dockerfile,    \* the resolved build file ("" = none)
  buildkit,      \* result of buildkitEnabled: "unknown", "session", "classic"
  imageID,       \* identifier returned by the driver
  started, finished,   \* build recorder: Start / Finish calls per phase
  calls,         \* number of invocations of each collaborator
  dockerHandle,  \* "none", "open", "closed"
  buildContext,  \* "none", "open", "closed"
  respOpen,      \* response streams opened and not closed
  cleanupCalls,  \* clearDeploymentTags invocations
  defers,        \* deferred calls registered by Run, in order
  teardown,      \* deferred calls executed at return, in order
  retImage, retWarning, retErr,   \* what Run returned
  exitCode,      \* status passed to os.Exit, -1 while the process lives
  \* pushToFly / retry.Do
  pushpc, pushKind, pushAlways, pushFails,
  attempts, hooks, delays, lastDelay, attemptErr, retryErr, pushErr,
  \* runBuildKitBuild
  ppc, cpc, chanClosed, sent, received, perr, cerr, egErr, res,
  \* observations
  phaseLog,      \* the recorder's Start / Finish calls, in order
  dfPath,        \* path of the resolved build file, as its components
  relDockerfile, \* relDockerfile of Run, as path components
  injected,      \* name under which makeBuildContext added the build file
  auxStream,     \* aux messages of the classic build's status stream
  driverErr,     \* the error the driver returned
  inspected      \* what docker.ImageInspectWithRaw reported

inputVars == <<available, explicitPath, publish, isLocal, tag>>
recVars == <<started, finished>>
retVars == <<retImage, retWarning, retErr>>
pushVars == <<pushpc, pushKind, pushAlways, pushFails, attempts, hooks,
              delays, lastDelay, attemptErr, retryErr, pushErr>>
sessVars == <<ppc, cpc, chanClosed, sent, received, perr, cerr, egErr, res>>
pathVars == <<dfPath, relDockerfile, injected>>
vars == <<pc, ctxCancelled, available, explicitPath, publish, isLocal, tag,
          dockerfile, buildkit, imageID, started, finished, calls,
          dockerHandle, buildContext, respOpen, cleanupCalls, defers,
          teardown, retImage, retWarning, retErr, exitCode,
          pushpc, pushKind, pushAlways, pushFails, attempts, hooks, delays,
          lastDelay, attemptErr, retryErr, pushErr,
          ppc, cpc, chanClosed, sent, received, perr, cerr, egErr, res,
          phaseLog, dfPath, relDockerfile, injected, auxStream, driverErr,
          inspected>>

\* ------------------------------------------------------------------ errors
Err(kind) == [kind |-> kind, tag |-> ""]
NilErr == Err("nil")
IsNil(e) == e.kind = "nil"
RegistryUnauthorizedError(t) == [kind |-> "RegistryUnauthorized", tag |-> t]

NilImage == [id |-> "", tag |-> "", size |-> 0]
NoInspect == [id |-> "", size |-> 0]

\* events of the build recorder
PhaseStart(p) == <<"start", p>>
PhaseFinish(p) == <<"finish", p>>
Min(a, b) == IF a < b THEN a ELSE b
Inc(f, S) == [p \in DOMAIN f |-> IF p \in S THEN f[p] + 1 ELSE f[p]]

Init ==
  /\ pc = "idle"
  /\ ctxCancelled = FALSE
  /\ available \in BOOLEAN
  /\ explicitPath \in BOOLEAN
  /\ publish \in BOOLEAN
  /\ isLocal \in BOOLEAN
  /\ tag \in Tags
  /\ dockerfile = ""
  /\ buildkit = "unknown"
  /\ imageID = ""
  /\ started = [p \in Phases |-> 0]
  /\ finished = [p \in Phases |-> 0]
  /\ calls = [c \in CallNames |-> 0]
  /\ dockerHandle = "none"
  /\ buildContext = "none"
  /\ respOpen = 0
  /\ cleanupCalls = 0
  /\ defers = <<>>
  /\ teardown = <<>>
  /\ retImage = NilImage
  /\ retWarning = ""
  /\ retErr = NilErr
  /\ exitCode = -1
  /\ pushpc = "none"
  /\ pushKind = "none"
  /\ pushAlways = FALSE
  /\ pushFails = 0
  /\ attempts = 0
  /\ hooks = 0
  /\ delays = 0
  /\ lastDelay = 0
  /\ attemptErr = NilErr
  /\ retryErr = NilErr
  /\ pushErr = NilErr
  /\ ppc = "none"
  /\ cpc = "none"
  /\ chanClosed = FALSE
  /\ sent = 0
  /\ received = 0
  /\ perr = NilErr
  /\ cerr = NilErr
  /\ egErr = NilErr
  /\ res = ""
  /\ phaseLog = <<>>
  /\ dfPath = <<>>
  /\ relDockerfile = <<>>
  /\ injected = ""
  /\ auxStream = <<>>
  /\ driverErr = NilErr
  /\ inspected = NoInspect

\* ------------------------------------------------- returning from Run
\* Deferred calls run last-registered first.  The deferred cleanup closure
\* calls clearDeploymentTags only for a local daemon.
Reverse(s) == [i \in 1..Len(s) |-> s[Len(s) + 1 - i]]
IsDeferred(name) == \E i \in 1..Len(defers) : defers[i] = name
RunsCleanup_AnyDaemon == IsDeferred("cleanup")

\* lines 172-178: if dockerFactory.IsLocal() { clearDeploymentTags(...) }
RunsCleanup == IsDeferred("cleanup") /\ isLocal

RunDeferred ==
  /\ teardown' = Reverse(defers)
  /\ cleanupCalls' = IF RunsCleanup THEN cleanupCalls + 1 ELSE cleanupCalls
  /\ dockerHandle' = IF IsDeferred("close") THEN "closed" ELSE dockerHandle

Return(img, err) ==
  /\ pc' = "returned"
  /\ retImage' = img
  /\ retWarning' = ""
  /\ retErr' = err
  /\ RunDeferred

Goto(next) ==
  /\ pc' = next
  /\ UNCHANGED <<retVars, teardown, cleanupCalls, dockerHandle>>

\* ------------------------------------------------------------ Run, part 1
FinishedOnUnavailable_None == {}

\* Phases closed on the daemon-unavailable path.
FinishedOnUnavailable == {"Build"}

\* lines 105-114
RunEnter ==
  /\ pc = "idle"
  /\ started' = Inc(started, {"Build"})
  /\ IF ~available
       THEN /\ finished' = Inc(finished, FinishedOnUnavailable)
            /\ phaseLog' = phaseLog \o <<PhaseStart("Build")>> \o
                 (IF "Build" \in FinishedOnUnavailable
                    THEN <<PhaseFinish("Build")>> ELSE <<>>)
            /\ Return(NilImage, NilErr)
       ELSE /\ finished' = finished
            /\ phaseLog' = phaseLog \o <<PhaseStart("Build")>>
            /\ Goto("resolve")
  /\ UNCHANGED <<ctxCancelled, inputVars, dockerfile, buildkit, imageID,
                 calls, buildContext, respOpen, defers, exitCode,
                 pushVars, sessVars, pathVars, auxStream, driverErr,
                 inspected>>

ExplicitPathMissing_Ignored(explicit, exists) == FALSE

\* line 118-119: an explicit build file that does not exist
ExplicitPathMissing(explicit, exists) == explicit /\ ~exists

DockerfileMissing_Ignored(df) == FALSE

\* line 130
DockerfileMissing(df) == df = ""

\* Paths are sequences of components.  WorkingDir is opts.WorkingDir; an
\* explicit build file may lie anywhere, ResolveDockerfile(opts.WorkingDir)
\* only looks inside the working directory.
WorkingDir == <<"app">>
ExplicitFiles == {<<"app", "Dockerfile">>, <<"app", "sub", "Dockerfile.web">>,
                  <<"other", "Dockerfile">>, <<"Dockerfile">>}
ResolvedFiles == {<<"app", "Dockerfile">>}

\* isPathInRoot(target, rootDir): the target lies under the root
isPathInRoot(target, rootDir) ==
  /\ Len(target) >= Len(rootDir)
  /\ SubSeq(target, 1, Len(rootDir)) = rootDir

\* filepath.ToSlash(filepath.Rel(rootDir, target)) for a target under the
\* root: the components below the root
RelSlash(rootDir, target) == SubSeq(target, Len(rootDir) + 1, Len(target))

\* lines 116-135; exists is helpers.FileExists(opts.DockerfilePath) for an
\* explicit path and ResolveDockerfile(opts.WorkingDir) != "" otherwise
ResolveBuildFile ==
  /\ pc = "resolve"
  /\ \E exists \in BOOLEAN :
       LET df == IF exists THEN (IF explicitPath THEN "explicit" ELSE "resolved")
                 ELSE ""
       IN IF ExplicitPathMissing(explicitPath, exists)
            THEN /\ finished' = Inc(finished, {"Build"})
                 /\ phaseLog' = phaseLog \o <<PhaseFinish("Build")>>
                 /\ dockerfile' = dockerfile
                 /\ dfPath' = dfPath
                 /\ Return(NilImage, Err("dockerfile not found"))
            ELSE IF DockerfileMissing(df)
              THEN /\ finished' = Inc(finished, {"Build"})
                   /\ phaseLog' = phaseLog \o <<PhaseFinish("Build")>>
                   /\ dockerfile' = df
                   /\ dfPath' = dfPath
                   /\ Return(NilImage, NilErr)
              ELSE /\ finished' = finished
                   /\ phaseLog' = phaseLog
                   /\ dockerfile' = df
                   /\ dfPath' \in (IF explicitPath /\ exists THEN ExplicitFiles
                                   ELSE ResolvedFiles)
                   /\ Goto("relpath")
  /\ UNCHANGED <<ctxCancelled, inputVars, buildkit, imageID, started,
                 calls, buildContext, respOpen, defers, exitCode,
                 pushVars, sessVars, relDockerfile, injected, auxStream,
                 driverErr, inspected>>

\* lines 137-148: the path Run hands to the classic driver
RelDockerfileFor(target, rootDir) ==
  IF isPathInRoot(target, rootDir) THEN RelSlash(rootDir, target) ELSE <<>>

\* lines 137-149; relFails is filepath.Rel returning an error
RelativePath ==
  /\ pc = "relpath"
  /\ \E relFails \in BOOLEAN :
       IF isPathInRoot(dfPath, WorkingDir) /\ relFails
         THEN /\ Return(NilImage, Err("rel"))
              /\ relDockerfile' = relDockerfile
         ELSE /\ Goto("connect")
              /\ relDockerfile' = RelDockerfileFor(dfPath, WorkingDir)
  /\ UNCHANGED <<ctxCancelled, inputVars, dockerfile, buildkit, imageID,
                 recVars, calls, buildContext, respOpen, defers, exitCode,
                 pushVars, sessVars, phaseLog, dfPath, injected, auxStream,
                 driverErr, inspected>>

CapabilityFailure_Skip(what) == NilErr

\* lines 153-157, 162-166, 218-225: the error Run returns when connecting,
\* the buildkit check or the server-info query fails
CapabilityFailure(what) == Err(what)

\* lines 151-158
Connect ==
  /\ pc = "connect"
  /\ started' = Inc(started, {"BuilderInit"})
  /\ calls' = Inc(calls, {"connect"})
  /\ \E ok \in BOOLEAN :
       IF ~ok
         THEN /\ finished' = Inc(finished, {"Build", "BuilderInit"})
              /\ phaseLog' = phaseLog \o
                   <<PhaseStart("BuilderInit"), PhaseFinish("Build"), PhaseFinish("BuilderInit")>>
              /\ defers' = defers
              /\ Return(NilImage, CapabilityFailure("error connecting to docker"))
         ELSE /\ finished' = finished
              /\ phaseLog' = phaseLog \o <<PhaseStart("BuilderInit")>>
              /\ defers' = Append(defers, "close")
              /\ dockerHandle' = "open"
              /\ pc' = "probe"
              /\ UNCHANGED <<retVars, teardown, cleanupCalls>>
  /\ UNCHANGED <<ctxCancelled, inputVars, dockerfile, buildkit, imageID,
                 buildContext, respOpen, exitCode, pushVars, sessVars,
                 pathVars, auxStream, driverErr, inspected>>

NeedsContext_Always(cap) == TRUE

\* line 183: only the classic build needs a packaged context
NeedsContext(cap) == cap # "session"

\* lines 160-179
ProbeBuildkit ==
  /\ pc = "probe"
  /\ calls' = Inc(calls, {"probe"})
  /\ \E r \in {"session", "classic", "err"} :
       IF r = "err"
         THEN /\ finished' = Inc(finished, {"Build", "BuilderInit"})
              /\ phaseLog' = phaseLog \o <<PhaseFinish("Build"), PhaseFinish("BuilderInit")>>
              /\ buildkit' = buildkit
              /\ defers' = defers
              /\ Return(NilImage, CapabilityFailure("error checking for buildkit support"))
         ELSE /\ finished' = Inc(finished, {"BuilderInit"})
              /\ phaseLog' = phaseLog \o <<PhaseFinish("BuilderInit")>>
              /\ buildkit' = r
              /\ defers' = Append(defers, "cleanup")
              /\ Goto(IF NeedsContext(r) THEN "context" ELSE "info")
  /\ UNCHANGED <<ctxCancelled, inputVars, dockerfile, imageID, started,
                 buildContext, respOpen, exitCode, pushVars, sessVars,
                 pathVars, auxStream, driverErr, inspected>>

InjectedName_Never(target, rootDir) == ""

\* lines 69-86 of makeBuildContext: a build file outside the working
\* directory is added to the archive as "Dockerfile"
InjectedName(target, rootDir) ==
  IF ~isPathInRoot(target, rootDir) THEN "Dockerfile" ELSE ""

\* lines 183-207 (and makeBuildContext, lines 60-102)
MakeContext ==
  /\ pc = "context"
  /\ started' = Inc(started, {"ContextBuild"})
  /\ calls' = Inc(calls, {"context"})
  /\ \E ok \in BOOLEAN :
       IF ~ok
         THEN /\ finished' = Inc(finished, {"Build", "ContextBuild"})
              /\ phaseLog' = phaseLog \o
                   <<PhaseStart("ContextBuild"), PhaseFinish("Build"), PhaseFinish("ContextBuild")>>
              /\ buildContext' = buildContext
              /\ injected' = injected
              /\ Return(NilImage, Err("context"))
         ELSE /\ finished' = Inc(finished, {"ContextBuild"})
              /\ phaseLog' = phaseLog \o
                   <<PhaseStart("ContextBuild"), PhaseFinish("ContextBuild")>>
              /\ buildContext' = "open"
              /\ injected' = InjectedName(dfPath, WorkingDir)
              /\ Goto("info")
  /\ UNCHANGED <<ctxCancelled, inputVars, dockerfile, buildkit, imageID,
                 respOpen, defers, exitCode, pushVars, sessVars, dfPath,
                 relDockerfile, auxStream, driverErr, inspected>>

\* line 298-307: never fails
normalizeBuildArgsForDocker == NilErr

\* lines 211-240; docker.Info runs under the caller's context
ServerInfo ==
  /\ pc = "info"
  /\ started' = Inc(started, {"ImageBuild"})
  /\ calls' = Inc(calls, {"info"})
  /\ \E ok \in (IF ctxCancelled THEN {FALSE} ELSE BOOLEAN) :
       IF ~ok
         THEN /\ finished' = Inc(finished, {"ImageBuild", "Build"})
              /\ phaseLog' = phaseLog \o
                   <<PhaseStart("ImageBuild"), PhaseFinish("ImageBuild"), PhaseFinish("Build")>>
              /\ Return(NilImage, CapabilityFailure("error fetching docker server info"))
         ELSE IF ~IsNil(normalizeBuildArgsForDocker)
           THEN /\ finished' = Inc(finished, {"ImageBuild", "Build"})
                /\ phaseLog' = phaseLog \o
                     <<PhaseStart("ImageBuild"), PhaseFinish("ImageBuild"), PhaseFinish("Build")>>
                /\ Return(NilImage, Err("error parsing build args"))
           ELSE /\ finished' = finished
                /\ phaseLog' = phaseLog \o <<PhaseStart("ImageBuild")>>
                /\ Goto("dispatch")
  /\ UNCHANGED <<ctxCancelled, inputVars, dockerfile, buildkit, imageID,
                 buildContext, respOpen, defers, exitCode, pushVars,
                 sessVars, pathVars, auxStream, driverErr, inspected>>

\* ------------------------------------------------------------ the drivers
DriverFor_AlwaysClassic(cap) == "classic"

\* line 241: the driver selected by the capability
DriverFor(cap) == IF cap = "session" THEN "session" ELSE "classic"

\* lines 241-242, 253: the driver is entered
Dispatch ==
  /\ pc = "dispatch"
  /\ calls' = Inc(calls, {DriverFor(buildkit)})
  /\ Goto(IF DriverFor(buildkit) = "session" THEN "bkNew" ELSE "classic")
  /\ UNCHANGED <<ctxCancelled, inputVars, dockerfile, buildkit, imageID,
                 recVars, buildContext, respOpen, defers, exitCode,
                 pushVars, sessVars, phaseLog, pathVars, auxStream,
                 driverErr, inspected>>

AfterDriver_AlwaysInspect(pub) == "inspect"

\* lines 269 and 282: with opts.Publish the image is pushed, otherwise it
\* is inspected
AfterDriver(pub) == IF pub THEN "push" ELSE "inspect"

\* lines 243-270: what Run does with the driver's result
DriverDone(id, err) ==
  /\ finished' = Inc(finished, {"ImageBuild", "Build"})
  /\ driverErr' = err
  /\ IF ~IsNil(err)
       THEN /\ imageID' = imageID
            /\ started' = started
            /\ phaseLog' = phaseLog \o <<PhaseFinish("ImageBuild"), PhaseFinish("Build")>>
            /\ Return(NilImage, err)
       ELSE /\ imageID' = id
            /\ IF AfterDriver(publish) = "push"
                 THEN /\ started' = Inc(started, {"Push"})
                      /\ phaseLog' = phaseLog \o
                           <<PhaseFinish("ImageBuild"), PhaseFinish("Build"), PhaseStart("Push")>>
                      /\ Goto("push")
                 ELSE /\ started' = started
                      /\ phaseLog' = phaseLog \o
                           <<PhaseFinish("ImageBuild"), PhaseFinish("Build")>>
                      /\ Goto("inspect")

\* The aux messages of a status stream that ends without an error: "id"
\* carries a well-formed types.BuildResult, "bad" a payload json.Unmarshal
\* rejects.
AuxKinds == {"id", "bad"}
AuxStreams == UNION {[1..n -> AuxKinds] : n \in 0..MaxAux}
BuiltID == "sha256:abc"

\* lines 333-339: idCallback logs a malformed payload and then assigns
\* aux.ID, the zero value after a failed Unmarshal, in every case
idCallback(cur, m) == IF m = "bad" THEN "" ELSE BuiltID

RECURSIVE CapturedID(_)
\* lines 341-345: imageID after the callback saw every aux message
CapturedID(stream) ==
  IF stream = <<>> THEN ""
  ELSE idCallback(CapturedID(SubSeq(stream, 1, Len(stream) - 1)),
                  stream[Len(stream)])

\* line 345: the error returned when the stream ended without an error
ClassicResultErr(stream) == NilErr

\* lines 309-346 (and 253-270 of Run).  The request body handed to
\* docker.ImageBuild is consumed and closed by the transport; resp.Body is
\* closed by the deferred call on every path that opened it.
runClassicBuild ==
  /\ pc = "classic"
  /\ buildContext' = "closed"
  /\ \E outcome \in (IF ctxCancelled THEN {"buildErr", "renderErr"}
                     ELSE {"buildErr", "renderErr", "ok"}) :
       CASE outcome = "buildErr" ->
              /\ DriverDone("", Err("error building with docker"))
              /\ auxStream' = auxStream
         [] outcome = "renderErr" ->
              /\ DriverDone("", Err("error rendering build status stream"))
              /\ auxStream' = auxStream
         [] outcome = "ok" ->
              \E stream \in AuxStreams :
                /\ auxStream' = stream
                /\ DriverDone(CapturedID(stream), ClassicResultErr(stream))
  /\ UNCHANGED <<ctxCancelled, inputVars, dockerfile, buildkit, calls,
                 respOpen, defers, exitCode, pushVars, sessVars, pathVars,
                 inspected>>

\* ---------------------------------------------------- runBuildKitBuild
\* errgroup.WithContext(ctx): done when the caller's context is done or a
\* task of the group has returned an error
egCtxDone == ctxCancelled \/ ~IsNil(egErr)

RenderCtxDone_GroupCtx == egCtxDone

\* line 423: DisplaySolveStatus runs under context.Background()
RenderCtxDone == FALSE

\* lines 400-408, 427: client.New, then both tasks are spawned
BkNew ==
  /\ pc = "bkNew"
  /\ \E ok \in BOOLEAN :
       IF ~ok
         THEN /\ DriverDone("", Err("buildkit client"))
              /\ UNCHANGED sessVars
         ELSE /\ ppc' = "run"
              /\ cpc' = "recv"
              /\ Goto("egWait")
              /\ UNCHANGED <<recVars, imageID, chanClosed, sent, received,
                             perr, cerr, egErr, res, phaseLog, driverErr>>
  /\ UNCHANGED <<ctxCancelled, inputVars, dockerfile, buildkit, calls,
                 buildContext, respOpen, defers, exitCode, pushVars,
                 pathVars, auxStream, inspected>>

sessFrame == <<pc, ctxCancelled, inputVars, dockerfile, buildkit, imageID,
               recVars, calls, dockerHandle, buildContext, respOpen,
               cleanupCalls, defers, teardown, retVars, exitCode, pushVars,
               phaseLog, pathVars, auxStream, driverErr, inspected>>

\* line 441: bc.Solve offers a status event on the unbuffered channel and
\* blocks until it is received
ProducerOffer ==
  /\ ppc = "run"
  /\ sent < MaxStatus
  /\ ppc' = "sending"
  /\ sent' = sent + 1
  /\ UNCHANGED <<cpc, chanClosed, received, perr, cerr, egErr, res>>
  /\ UNCHANGED sessFrame

\* lines 441-445: bc.Solve ends (closing the channel) and the task returns
ProducerFinish ==
  /\ ppc = "run"
  /\ chanClosed' = TRUE
  /\ ppc' = "done"
  /\ \E ok \in (IF egCtxDone THEN {FALSE} ELSE BOOLEAN) :
       /\ perr' = IF ok THEN NilErr
                  ELSE IF egCtxDone THEN Err("canceled") ELSE Err("solve")
       /\ res' = IF ok THEN "sha256:abc" ELSE res
  /\ egErr' = IF IsNil(egErr) THEN perr' ELSE egErr
  /\ UNCHANGED <<cpc, sent, received, cerr>>
  /\ UNCHANGED sessFrame

\* lines 408-425: one step of DisplaySolveStatus: its context is done, or a
\* status is received, or the channel is found closed
ConsumerStep ==
  /\ cpc = "recv"
  /\ \/ /\ RenderCtxDone
        /\ cpc' = "done"
        /\ cerr' = Err("canceled")
        /\ egErr' = IF IsNil(egErr) THEN cerr' ELSE egErr
        /\ UNCHANGED <<ppc, received>>
     \/ /\ ppc = "sending"
        /\ ppc' = "run"
        /\ received' = received + 1
        /\ UNCHANGED <<cpc, cerr, egErr>>
     \/ /\ chanClosed
        /\ cpc' = "done"
        /\ UNCHANGED <<ppc, received, cerr, egErr>>
  /\ UNCHANGED <<chanClosed, sent, perr, res>>
  /\ UNCHANGED sessFrame

WaitReturns_ProducerOnly == ppc = "done"

\* line 447: eg.Wait blocks until every task started with eg.Go returned
WaitReturns == ppc = "done" /\ cpc = "done"

SessionResult_IgnoresError(err, r) == <<r, NilErr>>

\* lines 449-452: the digest and error runBuildKitBuild returns
SessionResult(err, r) == IF ~IsNil(err) THEN <<"", err>> ELSE <<r, NilErr>>

\* lines 447-453 (and 242-270 of Run): eg.Wait returns once both tasks did
EgWait ==
  /\ pc = "egWait"
  /\ WaitReturns
  /\ DriverDone(SessionResult(egErr, res)[1], SessionResult(egErr, res)[2])
  /\ UNCHANGED sessVars
  /\ UNCHANGED <<ctxCancelled, inputVars, dockerfile, buildkit, calls,
                 buildContext, respOpen, defers, exitCode, pushVars,
                 pathVars, auxStream, inspected>>

\* ------------------------------------------------------------- pushToFly
PushFailKinds == {"pushErr", "renderErr", "denied"}

\* the registry's behaviour: attempt n fails while n <= pushFails (or always)
ScriptOutcome(n) == IF pushAlways \/ n <= pushFails THEN pushKind ELSE "ok"

RetryContextDone_Never == FALSE

\* line 483: retry.Context(ctx)
RetryContextDone == ctxCancelled

DelayFor_BackOff(n) == RetryDelay * (2 ^ (n - 1))

\* lines 485-486: retry.Delay(3s) with retry.FixedDelay
DelayFor(n) == RetryDelay

\* retry.Do gives up on its own only after RetryAttempts attempts; 0 means
\* never (line 484)
AttemptsExhausted(n) == RetryAttempts # 0 /\ n >= RetryAttempts

AfterFailure_NoHook(n) == IF AttemptsExhausted(n) THEN "ended" ELSE "wait"

\* lines 482-490: after a failed attempt retry.Do calls the OnRetry hook
\* and then waits, unless the attempts are used up
AfterFailure(n) == IF AttemptsExhausted(n) THEN "ended" ELSE "hook"

\* line 494-495: errors.As(err, &msgerr) and the access-denied message
IsAccessDenied(e) == e.kind = "denied"

\* lines 492-500: the value pushToFly returns for retry.Do's result
ClassifyPushErr(e, t) ==
  IF IsAccessDenied(e) THEN RegistryUnauthorizedError(t) ELSE NilErr

pushFrame == <<ctxCancelled, inputVars, dockerfile, buildkit, imageID,
               started, calls, buildContext, defers, pathVars, auxStream,
               driverErr, inspected>>

\* lines 270-272, 455-482: pushToFly is entered; retry.Do checks the
\* context and starts the first attempt
PushEnter ==
  /\ pc = "push"
  /\ calls' = Inc(calls, {"push"})
  /\ \E k \in PushFailKinds, always \in BOOLEAN, n \in 0..MaxPushFails :
       /\ always => n = 0
       /\ pushKind' = k
       /\ pushAlways' = always
       /\ pushFails' = n
  /\ IF RetryContextDone
       THEN /\ retryErr' = Err("canceled")
            /\ pushpc' = "ended"
            /\ attempts' = attempts
       ELSE /\ retryErr' = retryErr
            /\ pushpc' = "attempt"
            /\ attempts' = 1
  /\ Goto("pushing")
  /\ UNCHANGED <<ctxCancelled, inputVars, dockerfile, buildkit, imageID,
                 recVars, buildContext, respOpen, defers, exitCode,
                 hooks, delays, lastDelay, attemptErr, pushErr, sessVars,
                 phaseLog, pathVars, auxStream, driverErr, inspected>>

\* lines 465-480: one invocation of pushFn ends
PushAttemptEnd ==
  /\ pushpc = "attempt"
  /\ LET outcome == IF ctxCancelled THEN "canceled"
                    ELSE ScriptOutcome(attempts)
     IN /\ respOpen' = IF outcome \in {"renderErr", "denied"}
                         THEN Min(respOpen + 1, MaxAttempts) ELSE respOpen
        /\ IF outcome = "ok"
             THEN /\ retryErr' = NilErr
                  /\ attemptErr' = NilErr
                  /\ pushpc' = "ended"
             ELSE /\ retryErr' = retryErr
                  /\ attemptErr' = Err(outcome)
                  /\ pushpc' = AfterFailure(attempts)
  /\ Goto(pc)
  /\ UNCHANGED <<pushFrame, finished, phaseLog, exitCode, pushKind, pushAlways,
                 pushFails, attempts, hooks, delays, lastDelay, pushErr,
                 sessVars>>

\* lines 487-489: the OnRetry hook, then the delay starts
OnRetry ==
  /\ pushpc = "hook"
  /\ hooks' = Min(hooks + 1, MaxAttempts)
  /\ lastDelay' = DelayFor(hooks')
  /\ pushpc' = "wait"
  /\ Goto(pc)
  /\ UNCHANGED <<pushFrame, finished, phaseLog, respOpen, exitCode, pushKind,
                 pushAlways, pushFails, attempts, delays, attemptErr,
                 retryErr, pushErr, sessVars>>

\* the delay elapses with the context still live: the next attempt starts
DelayElapsed ==
  /\ pushpc = "wait"
  /\ ~RetryContextDone
  /\ delays' = Min(delays + 1, MaxAttempts)
  /\ attempts' = Min(attempts + 1, MaxAttempts)
  /\ pushpc' = "attempt"
  /\ Goto(pc)
  /\ UNCHANGED <<pushFrame, finished, phaseLog, respOpen, exitCode, pushKind,
                 pushAlways, pushFails, hooks, lastDelay, attemptErr,
                 retryErr, pushErr, sessVars>>

\* the context is done during the delay: retry.Do returns the context error
AbortOnCancel ==
  /\ pushpc = "wait"
  /\ RetryContextDone
  /\ retryErr' = Err("canceled")
  /\ pushpc' = "ended"
  /\ Goto(pc)
  /\ UNCHANGED <<pushFrame, finished, phaseLog, respOpen, exitCode, pushKind,
                 pushAlways, pushFails, attempts, hooks, delays, lastDelay,
                 attemptErr, pushErr, sessVars>>

\* lines 492-500 of pushToFly and 272-279 of Run
PushReturn ==
  /\ pushpc = "ended"
  /\ pushErr' = ClassifyPushErr(retryErr, tag)
  /\ pushpc' = "done"
  /\ finished' = Inc(finished, {"Push"})
  /\ phaseLog' = phaseLog \o <<PhaseFinish("Push")>>
  /\ IF ~IsNil(pushErr')
       THEN /\ Return(NilImage, pushErr')
            /\ exitCode' = exitCode
       ELSE /\ pc' = "exited"
            /\ exitCode' = ExitStatus
            /\ UNCHANGED <<retVars, teardown, cleanupCalls, dockerHandle>>
  /\ UNCHANGED <<pushFrame, respOpen, pushKind, pushAlways, pushFails,
                 attempts, hooks, delays, lastDelay, attemptErr, retryErr,
                 sessVars>>

\* what the daemon may report for the built image: img.ID and img.Size
InspectResults == {[id |-> "sha256:abc", size |-> 1024],
                   [id |-> "sha256:def", size |-> 2048]}

DeploymentImage_NoTag(img, t) == [id |-> img.id, tag |-> "", size |-> img.size]

\* lines 287-291
DeploymentImage(img, t) == [id |-> img.id, tag |-> t, size |-> img.size]

InspectFailure_Swallowed == NilErr

\* lines 283-286: the error Run returns when the inspection fails
InspectFailure == Err("count not find built image")

\* lines 282-295
Inspect ==
  /\ pc = "inspect"
  /\ calls' = Inc(calls, {"inspect"})
  /\ \E ok \in (IF ctxCancelled \/ imageID = "" THEN {FALSE} ELSE BOOLEAN) :
       IF ~ok
         THEN /\ inspected' = inspected
              /\ Return(NilImage, InspectFailure)
         ELSE \E img \in InspectResults :
                /\ inspected' = img
                /\ Return(DeploymentImage(img, tag), NilErr)
  /\ UNCHANGED <<ctxCancelled, inputVars, dockerfile, buildkit, imageID,
                 recVars, buildContext, respOpen, defers, exitCode,
                 pushVars, sessVars, phaseLog, pathVars, auxStream,
                 driverErr>>

Cancel ==
  /\ ~ctxCancelled
  /\ pc \notin {"returned", "exited"}
  /\ ctxCancelled' = TRUE
  /\ UNCHANGED <<pc, inputVars, dockerfile, buildkit, imageID, recVars,
                 calls, dockerHandle, buildContext, respOpen, cleanupCalls,
                 defers, teardown, retVars, exitCode, pushVars, sessVars,
                 phaseLog, pathVars, auxStream, driverErr, inspected>>

Next ==
  \/ RunEnter
  \/ ResolveBuildFile
  \/ RelativePath
  \/ Connect
  \/ ProbeBuildkit
  \/ MakeContext
  \/ ServerInfo
  \/ Dispatch
  \/ runClassicBuild
  \/ BkNew
  \/ ProducerOffer
  \/ ProducerFinish
  \/ ConsumerStep
  \/ EgWait
  \/ PushEnter
  \/ PushAttemptEnd
  \/ OnRetry
  \/ DelayElapsed
  \/ AbortOnCancel
  \/ PushReturn
  \/ Inspect
  \/ Cancel

Spec == Init /\ [][Next]_vars

\* The goroutines of a running process keep being scheduled and timers
\* fire: every step of the program that stays possible is eventually taken.
\* Nothing obliges the caller to cancel.
MainStep ==
  \/ RunEnter \/ ResolveBuildFile \/ RelativePath \/ Connect
  \/ ProbeBuildkit \/ MakeContext \/ ServerInfo \/ Dispatch
  \/ runClassicBuild \/ BkNew \/ EgWait \/ PushEnter \/ PushAttemptEnd
  \/ OnRetry \/ DelayElapsed \/ AbortOnCancel \/ PushReturn \/ Inspect
ProducerStep == ProducerOffer \/ ProducerFinish

FairSpec ==
  /\ Init
  /\ [][Next]_vars
  /\ WF_vars(MainStep)
  /\ WF_vars(ProducerStep)
  /\ WF_vars(ConsumerStep)

\* ================================================================ claims
NoCalls(S) == \A c \in S : calls[c] = 0
OnlyBuildPhase ==
  /\ started = [p \in Phases |-> IF p = "Build" THEN 1 ELSE 0]
  /\ finished = started
SkipResult == retImage = NilImage /\ retWarning = "" /\ IsNil(retErr)

\* C1: when Run returns, every phase of the build recorder has been
\* finished exactly as often as it was started.
C1_StartsEqualFinishes ==
  pc = "returned" => \A p \in Phases : started[p] = finished[p]

\* C2: with the daemon unavailable Run goes straight from its entry to the
\* skip result (nil, "", nil): no collaborator is called, no daemon handle
\* exists, and Build is the only phase opened and it is closed.
C2_UnavailableSkips ==
  ~available =>
    /\ pc \in {"idle", "returned"}
    /\ NoCalls(CallNames)
    /\ dockerHandle = "none"
    /\ pc = "returned" => SkipResult /\ OnlyBuildPhase

C2_Witness == pc = "returned" /\ ~available /\ started["Build"] = 1

\* C3: daemon available, no explicit path, no build file found: Run returns
\* the skip result directly after the resolution, before any connection,
\* probe, context packaging, driver or push.
NothingResolved == available /\ ~explicitPath /\ dockerfile = ""

C3_NoBuildFileSkips ==
  NothingResolved =>
    /\ pc \in {"idle", "resolve", "returned"}
    /\ NoCalls(CallNames)
    /\ dockerHandle = "none" /\ buildContext = "none"
    /\ pc = "returned" => SkipResult

C3_Witness == NothingResolved /\ pc = "returned" /\ finished["Build"] = 1

\* C4: an explicit build-file path that does not exist makes Run return a
\* nil image and the not-found error; the connection factory, both drivers
\* and the push are never invoked.
ExplicitNotFound ==
  available /\ explicitPath /\ dockerfile = "" /\ pc \notin {"idle", "resolve"}

C4_ExplicitMissingFails ==
  ExplicitNotFound =>
    /\ pc = "returned"
    /\ retImage = NilImage
    /\ retErr = Err("dockerfile not found")
    /\ NoCalls({"connect", "classic", "session", "push"})

C4_Witness == ExplicitNotFound /\ pc = "returned"

\* C5: at most one driver runs, at most once; once the dispatch is passed
\* exactly one has run, the one the session capability selects, and the
\* capability was probed exactly once.
PastDispatch ==
  pc \in {"classic", "bkNew", "egWait", "push", "pushing", "inspect", "exited"}

C5_ExactlyOneDriver ==
  /\ calls["classic"] + calls["session"] <= 1
  /\ calls["probe"] <= 1
  /\ PastDispatch => calls["classic"] + calls["session"] = 1
  /\ calls["classic"] + calls["session"] = 1 =>
       /\ calls["probe"] = 1
       /\ buildkit \in {"session", "classic"}
       /\ calls["session"] = 1 <=> buildkit = "session"

C5_Witness ==
  pc = "returned" /\ calls["session"] = 1 /\ calls["classic"] = 0
  /\ retImage # NilImage

\* C6: a final error of the retry loop that is not the access-denied
\* response is what pushToFly returns, and Run returns it with a nil image.
C6_OtherErrorUnchanged ==
  (pushpc = "done" /\ ~IsNil(retryErr) /\ ~IsAccessDenied(retryErr)) =>
    /\ pushErr = retryErr
    /\ pc = "returned" /\ retErr = retryErr /\ retImage = NilImage

\* C7: with a push that is denied on every attempt, Run eventually returns
\* a RegistryUnauthorizedError carrying the requested tag (stated here for
\* the runs in which the caller never cancels the context).
C7_DeniedPushReturnsUnauthorized ==
  (pushpc = "attempt" /\ pushAlways /\ pushKind = "denied") ~>
    \/ pc = "returned" /\ retErr = RegistryUnauthorizedError(tag)
    \/ ctxCancelled

\* C8: a push failing twice with a transient error and then succeeding,
\* with the context never cancelled: three invocations, a delay of
\* RetryDelay after each of the two failures, none after the success, and
\* pushToFly reports nil.
TwoTransientFailures ==
  /\ pushKind \in {"pushErr", "renderErr"}
  /\ ~pushAlways
  /\ pushFails = 2
  /\ ~ctxCancelled

C8_ThirdAttemptSucceeds ==
  TwoTransientFailures =>
    /\ attempts <= 3
    /\ delays = (IF pushpc = "none" THEN 0 ELSE attempts - 1)
    /\ pushpc = "wait" => lastDelay = RetryDelay
    /\ pushpc \in {"ended", "done"} =>
         attempts = 3 /\ delays = 2 /\ hooks = 2 /\ IsNil(retryErr)
    /\ pushpc = "done" => IsNil(pushErr) /\ pc = "exited"

C8_Witness ==
  TwoTransientFailures /\ pushpc = "done" /\ attempts = 3 /\ delays = 2

\* C9: the retry loop is left only by a successful attempt or by the
\* context being done; once the context is done no attempt is started and
\* no delay is waited out, and pushToFly returns.
InRetryLoop == pushpc \in {"attempt", "hook", "wait", "ended"}

C9_Step ==
  /\ ctxCancelled => ~(pushpc' = "attempt" /\ pushpc # "attempt")
  /\ ctxCancelled => delays' = delays
  /\ (pushpc' = "ended" /\ pushpc # "ended") =>
       (IsNil(retryErr') \/ (ctxCancelled /\ retryErr' = Err("canceled")))

C9_RetriesUntilCancelled ==
  /\ [][C9_Step]_vars
  /\ (InRetryLoop /\ ctxCancelled) ~> (pushpc = "done")

C9_Witness ==
  /\ pushpc = "done" /\ ctxCancelled /\ retryErr = Err("canceled")
  /\ attempts >= 2 /\ pushAlways

\* C10: in the session build the consumer returns only once the producer
\* has closed the channel, whatever the caller's context does; a producer
\* blocked on a send is always served, and eg.Wait eventually returns.
C10_ConsumerDrains ==
  /\ [](cpc = "done" => chanClosed /\ ppc = "done" /\ IsNil(cerr))
  /\ (ppc = "sending") ~> (ppc = "run")
  /\ (pc = "egWait") ~> (pc # "egWait")

C10_Witness ==
  /\ ctxCancelled /\ perr = Err("canceled")
  /\ cpc = "done" /\ received = sent /\ sent >= 1
  /\ pc = "returned" /\ retErr = Err("canceled")

\* runBuildKitBuild has been entered and its eg.Wait has returned
SessionWaited == ppc # "none" /\ pc # "egWait"

\* C11: a producer that has returned has closed the status channel, so after
\* a failed solve the consumer observes the closure and returns; once
\* runBuildKitBuild has returned, both tasks have returned.
C11_NoTaskLeftBehind ==
  /\ [](ppc = "done" => chanClosed)
  /\ [](SessionWaited => ppc = "done" /\ cpc = "done")
  /\ (ppc = "done" /\ ~IsNil(perr)) ~> (cpc = "done")

C11_Witness ==
  /\ pc = "returned"
  /\ ppc = "done" /\ ~IsNil(perr)
  /\ chanClosed /\ cpc = "done"

\* C12: eg.Wait returns only after both tasks returned, with the first
\* non-nil task error (nil when both succeeded); the driver returns the
\* digest of the solve response with a nil error, or "" with that error.
C12_WaitResult ==
  SessionWaited =>
    /\ ppc = "done" /\ cpc = "done"
    /\ egErr \in {perr, cerr}
    /\ IsNil(egErr) <=> (IsNil(perr) /\ IsNil(cerr))
    /\ driverErr = egErr
    /\ IF IsNil(egErr) THEN imageID = res /\ res # "" ELSE imageID = ""

C12_Witness ==
  /\ SessionWaited
  /\ ~IsNil(egErr) /\ driverErr = egErr /\ imageID = ""
  /\ pc = "returned" /\ retErr = egErr

\* C13: once makeBuildContext has produced a stream, the stream is closed
\* by the time Run has returned.
C13_ContextClosed ==
  (pc = "returned" /\ buildContext # "none") => buildContext = "closed"

Closes == {i \in 1..Len(teardown) : teardown[i] = "close"}

\* C14: after a successful connection the handle is closed exactly once on
\* every way Run ends; without one there is no handle and no Close.
C14_HandleReleased ==
  pc \in {"returned", "exited"} =>
    IF calls["connect"] > 0 /\ dockerHandle # "none"
      THEN dockerHandle = "closed" /\ Cardinality(Closes) = 1
      ELSE dockerHandle = "none" /\ Closes = {}

\* C15: with a remote daemon clearDeploymentTags is never called; it is
\* called at most once, and only with a local daemon.
C15_RemoteNeverCleans ==
  /\ ~isLocal => cleanupCalls = 0
  /\ cleanupCalls \in {0, 1}

C15_Witness ==
  /\ ~isLocal
  /\ pc = "returned"
  /\ \E i \in 1..Len(teardown) : teardown[i] = "cleanup"
  /\ cleanupCalls = 0

\* Run's image inspection was reached
InspectReached == pc = "returned" /\ calls["inspect"] > 0

\* C16: without publish, after a successful driver, a successful inspection
\* makes Run return (image{ID, Size of the inspection, Tag of the options},
\* "", nil); a failed inspection makes it return a nil image and an error.
C16_InspectResult ==
  InspectReached =>
    /\ ~publish /\ IsNil(driverErr)
    /\ IF inspected # NoInspect
         THEN /\ IsNil(retErr) /\ retWarning = ""
              /\ retImage.id = inspected.id
              /\ retImage.size = inspected.size
              /\ retImage.tag = tag
         ELSE retImage = NilImage /\ ~IsNil(retErr)

C16_Witness ==
  /\ InspectReached
  /\ inspected \in InspectResults
  /\ retImage = [id |-> inspected.id, tag |-> tag, size |-> inspected.size]
  /\ IsNil(retErr)

\* the build file lies under the working directory
InsideRoot == \E n \in 0..Len(dfPath) :
                dfPath = WorkingDir \o SubSeq(dfPath, n + 1, Len(dfPath))

\* C17: when the classic driver is invoked, a build file inside the working
\* directory is named to the backend by its root-relative path and nothing
\* is injected; a build file outside is injected as "Dockerfile" and the
\* path given to the backend is empty.
C17_PathOrInjection ==
  calls["classic"] > 0 =>
    IF InsideRoot
      THEN /\ relDockerfile # <<>>
           /\ WorkingDir \o relDockerfile = dfPath
           /\ injected = ""
      ELSE /\ injected = "Dockerfile"
           /\ relDockerfile = <<>>

C17_Witness ==
  /\ calls["classic"] > 0
  /\ ~InsideRoot
  /\ injected = "Dockerfile" /\ relDockerfile = <<>>

\* positions of an event in the phase log
Pos(e) == {i \in 1..Len(phaseLog) : phaseLog[i] = e}
\* every occurrence of b comes after an occurrence of a
After(a, b) == \A i \in Pos(b) : \E j \in Pos(a) : j < i
\* every occurrence of a comes before every occurrence of b
AllBefore(a, b) == \A i \in Pos(a), j \in Pos(b) : i < j

SessionNoContext ==
  buildkit = "session" => Pos(PhaseStart("ContextBuild")) = {}
ImageAfterInit ==
  After(PhaseFinish("BuilderInit"), PhaseStart("ImageBuild"))
PushAfterImage ==
  After(PhaseFinish("ImageBuild"), PhaseStart("Push"))

\* C18 as stated: context-build is started and finished before builder-init
\* is started; no context-build with the session protocol; image-build
\* starts after builder-init finished; push starts after image-build
\* finished.
C18_ContextBeforeInit ==
  /\ AllBefore(PhaseStart("ContextBuild"), PhaseStart("BuilderInit"))
  /\ AllBefore(PhaseFinish("ContextBuild"), PhaseStart("BuilderInit"))
  /\ SessionNoContext
  /\ ImageAfterInit
  /\ PushAfterImage

\* C18: builder-init is started and finished before context-build is
\* started, and context-build is finished before image-build is started; no
\* context-build with the session protocol; image-build starts after
\* builder-init finished; push starts after image-build finished.
C18_InitBeforeContext ==
  /\ After(PhaseFinish("BuilderInit"), PhaseStart("ContextBuild"))
  /\ AllBefore(PhaseStart("BuilderInit"), PhaseStart("ContextBuild"))
  /\ AllBefore(PhaseFinish("ContextBuild"), PhaseStart("ImageBuild"))
  /\ SessionNoContext
  /\ ImageAfterInit
  /\ PushAfterImage

C18_Witness ==
  /\ buildkit = "classic"
  /\ Pos(PhaseFinish("ContextBuild")) # {}
  /\ Pos(PhaseStart("Push")) # {}

RECURSIVE Nested(_, _)
\* the log is a well-bracketed sequence: each finish closes the phase that
\* was opened last
Nested(log, stack) ==
  IF log = <<>> THEN TRUE
  ELSE IF Head(log)[1] = "start"
    THEN Nested(Tail(log), <<Head(log)[2]>> \o stack)
    ELSE /\ stack # <<>>
         /\ Head(stack) = Head(log)[2]
         /\ Nested(Tail(log), Tail(stack))

\* phases open after the first n events of the log
OpenAfter(n) ==
  {p \in Phases :
     Cardinality({i \in 1..n : phaseLog[i] = PhaseStart(p)}) >
     Cardinality({i \in 1..n : phaseLog[i] = PhaseFinish(p)})}

\* C19: phase boundaries are nested (a phase started later is finished
\* first), and at most one of builder-init, context-build, image-build and
\* push is open at any point.
C19_StrictlyNested ==
  /\ Nested(phaseLog, <<>>)
  /\ \A n \in 0..Len(phaseLog) : Cardinality(OpenAfter(n) \ {"Build"}) <= 1

\* runClassicBuild has returned
ClassicReturned == calls["classic"] > 0 /\ pc # "classic"

\* C20: a stream with a malformed aux payload still ends the classic driver
\* without an error and with the identifier of a well-formed aux message;
\* a stream that ends with no identifier captured makes the driver fail.
C20_IdOrError ==
  ClassicReturned =>
    /\ IsNil(driverErr) => imageID # ""
    /\ (IsNil(driverErr) /\ \E i \in 1..Len(auxStream) : auxStream[i] = "id")
         => imageID = BuiltID

\* the push counters are below their saturation point
Counted == attempts < MaxAttempts /\ hooks < MaxAttempts

C22_PublishExits ==
  /\ (publish /\ pushpc = "done" /\ IsNil(pushErr)) =>
       /\ pc = "exited" /\ exitCode = ExitStatus
       /\ started["Push"] = 1 /\ finished["Push"] = 1
       /\ calls["inspect"] = 0
       /\ retImage = NilImage
  /\ pc = "exited" => (publish /\ pushpc = "done" /\ IsNil(pushErr))
  /\ retImage # NilImage => ~publish
  /\ publish => calls["inspect"] = 0

C22_Witness ==
  /\ publish /\ pc = "exited" /\ exitCode = ExitStatus
  /\ attempts > 0 /\ IsNil(attemptErr) /\ IsNil(retryErr)
  /\ finished["Push"] = 1

\* C23: when connecting, the buildkit check or the server-info query
\* fails, Run returns a nil image with a non-nil error, and in that
\* execution no driver has run, no context reached a driver and nothing was
\* pushed.
C23_CapabilityFailureIsFatal ==
  [][(pc \in {"connect", "probe", "info"} /\ pc' = "returned") =>
       /\ available
       /\ retImage' = NilImage /\ ~IsNil(retErr')
       /\ calls'["classic"] = 0 /\ calls'["session"] = 0
       /\ calls'["push"] = 0 /\ pushpc' = "none"
       /\ buildContext' # "closed"]_vars

C23_Witness ==
  /\ pc = "returned"
  /\ retErr = Err("error fetching docker server info")
  /\ retImage = NilImage
  /\ buildContext = "open" /\ calls["classic"] = 0

\* C24: outside a running attempt no response stream of a push attempt (or
\* of the classic build request) is open.
C24_ResponsesClosed == pushpc # "attempt" => respOpen = 0

\* retry.Do ended without an error
PushSucceeded == pushpc = "done" /\ IsNil(retryErr)

\* C25: with a local daemon, when Run has ended after a successful
\* capability check in any way but a successful publish,
\* clearDeploymentTags has run exactly once, before the handle was closed;
\* when Run ended before the capability check succeeded it has not run.
C25_LocalCleanupOnce ==
  (isLocal /\ pc \in {"returned", "exited"}) =>
    IF buildkit = "unknown"
      THEN cleanupCalls = 0
      ELSE PushSucceeded \/
           (cleanupCalls = 1 /\ teardown = <<"cleanup", "close">>)

\* C26: what Run returns is a skip (nil, "", nil), a failure (nil, "", err)
\* or a success (image, "", nil): never an image with an error, never a
\* warning; the skip is returned only with the daemon unavailable or no
\* build file resolved, and then nothing has been called.
C26_ResultShapes ==
  pc = "returned" =>
    /\ retWarning = ""
    /\ ~(retImage # NilImage /\ ~IsNil(retErr))
    /\ SkipResult =>
         /\ ~available \/ NothingResolved
         /\ NoCalls(CallNames)

C26_Witness ==
  /\ pc = "returned"
  /\ retImage # NilImage /\ retWarning = "" /\ IsNil(retErr)
  /\ calls["classic"] + calls["session"] = 1

====
